---- MODULE Spec2Model ----
(***************************************************************************)
(* EventBusPanelContent (src/src/tools/index.ts:481-1010): the event bus   *)
(* monitor panel.  A wildcard handler registered with the host event       *)
(* emitter appends every dispatched PanelEvent to a bounded list of         *)
(* CapturedEvent rows; the user pauses/resumes capture, clears the list,   *)
(* edits two substring filters and expands rows.                           *)
(*                                                                         *)
(* Strings are sequences of one-character strings, so that toLowerCase()   *)
(* and includes() are computed character by character.                     *)
(***************************************************************************)
EXTENDS Integers, Sequences, FiniteSets, TLC

\* ---------------------------------------------------------------- bounds
\* Number of events the host dispatches in one run.
MaxDispatch == 3
\* Largest value of the maxEvents prop that Init draws.
MaxCap == 2
\* Number of onAll registrations in one run, where the props change.
MaxSubs == 3

\* AgentToolsPanelContent is narrow below this container width.
NarrowWidth == 350

\* ---------------------------------------------------------------- strings
\* One character of String.prototype.toLowerCase (ASCII range): the upper
\* case letters map to their lower case, every other character to itself.
LowerMap ==
  [c \in {"A","B","C","D","E","F","G","H","I","J","K","L","M",
          "N","O","P","Q","R","S","T","U","V","W","X","Y","Z"} |->
     CASE c = "A" -> "a" [] c = "B" -> "b" [] c = "C" -> "c" [] c = "D" -> "d"
       [] c = "E" -> "e" [] c = "F" -> "f" [] c = "G" -> "g" [] c = "H" -> "h"
       [] c = "I" -> "i" [] c = "J" -> "j" [] c = "K" -> "k" [] c = "L" -> "l"
       [] c = "M" -> "m" [] c = "N" -> "n" [] c = "O" -> "o" [] c = "P" -> "p"
       [] c = "Q" -> "q" [] c = "R" -> "r" [] c = "S" -> "s" [] c = "T" -> "t"
       [] c = "U" -> "u" [] c = "V" -> "v" [] c = "W" -> "w" [] c = "X" -> "x"
       [] c = "Y" -> "y" [] c = "Z" -> "z"]

\* The characters toLowerCase changes.
UpperCaseLetters == DOMAIN LowerMap

LowerChar(c) == IF c \in UpperCaseLetters THEN LowerMap[c] ELSE c

\* String.prototype.toLowerCase
ToLowerCase(s) == [i \in 1..Len(s) |-> LowerChar(s[i])]

\* String.prototype.includes: sub occurs in s at some offset.
Includes(s, sub) ==
  \E k \in 0..(Len(s) - Len(sub)) : \A i \in 1..Len(sub) : s[k + i] = sub[i]

\* JavaScript truthiness of a string: the empty string is falsy.
Truthy(s) == s # <<>>

\* The event types and sources the host dispatches (stories' examples).
TypePanelToggle == <<"p","a","n","e","l",":","t","o","g","g","l","e">>
TypeFileOpened  == <<"f","i","l","e",":","o","p","e","n","e","d">>
TypeFileError   == <<"f","i","l","e",":","e","r","r","o","r">>
SourceUserAction == <<"u","s","e","r","-","a","c","t","i","o","n">>
SourceFileTree   == <<"F","i","l","e","T","r","e","e">>
\* The event the InPanelContext story's emitter hands to the handler.
TypePanelMounted == <<"p","a","n","e","l",":","m","o","u","n","t","e","d">>
SourceEventBusPanel == <<"e","v","e","n","t","-","b","u","s","-","p","a","n","e","l">>

\* The (type, source) pairs of dispatched events.
EventKinds ==
  { <<TypePanelToggle, SourceUserAction>>,
    <<TypeFileOpened,  SourceFileTree>>,
    <<TypeFileError,   SourceUserAction>> }

\* Values typed into the "Type..." input.
FilterTypeInputs == { <<>>, <<"E","R","R">> }
\* Values typed into the "Source..." input.
FilterSourceInputs == { <<>>, <<"t","r","e","e">> }

\* Values of the events prop: absent (undefined), an emitter without the
\* optional onAll capability, an emitter with it.
EventsProps == {"absent", "base", "bus"}

\* The tools the package exposes to agents: export const ... = []
agentDrivenUIPanelTools == <<>>

VARIABLES
  phase,          \* "rendered" (first render, effects pending), "mounted", "unmounted"
  events,         \* the events prop
  maxEvents,      \* the maxEvents prop
  capturedEvents, \* useState<CapturedEvent[]>([])
  isPaused,       \* useState(false)
  isPausedRef,    \* useRef(isPaused)
  filterType,     \* useState('')
  filterSource,   \* useState('')
  eventIdRef,     \* useRef(0)
  hostHandlers,   \* wildcard handlers registered with the host emitter
  cleanup,        \* what the subscription effect returned (0: nothing)
  nextHid,        \* number of onAll registrations made so far
  subDeps,        \* the [events, maxEvents] the subscription effect last ran with
  timers,         \* handler calls a host has scheduled with setTimeout
  threw,          \* an operation of the panel raised an exception
  nDispatched,    \* host clock: number of events dispatched so far
  unsubCalls,     \* history: number of calls of a function onAll returned
  issued,         \* history: the ids assigned, in order of assignment
  liveRun,        \* history: the events dispatched since the last clear or
                  \*          the last event that met a paused or unsubscribed
                  \*          panel, whichever is later
  lastOp,         \* history: "clearEvents" or "clearFilters" right after that
                  \*          button was clicked, "other" after anything else
  pausedDrops,    \* history: events dispatched during the current pause
  pausedStamps,   \* history: timestamps of all events dispatched during a pause
  agentConfig,    \* AgentToolsPanelContent: the agentConfig prop
  activeTab,      \* AgentToolsPanelContent: useState<TabId>('prompt')
  isNarrow,       \* AgentToolsPanelContent: useState(false)
  resumePhase     \* history: "resumed" after a resume click, "first" after
                  \*          the first event dispatched to the resumed panel

vars == << phase, events, maxEvents, capturedEvents, isPaused, isPausedRef,
           filterType, filterSource, eventIdRef, hostHandlers, cleanup,
           nextHid, subDeps, timers, threw, nDispatched, unsubCalls, issued,
           liveRun, lastOp, pausedDrops, pausedStamps, agentConfig, activeTab,
           isNarrow, resumePhase >>

\* ---------------------------------------------------------------- helpers
Max(a, b) == IF a > b THEN a ELSE b
Min(a, b) == IF a < b THEN a ELSE b

\* Array.prototype.slice(start) with one argument: a negative start counts
\* from the end, and -0 is 0.
Slice(arr, start) ==
  LET k == IF start < 0 THEN Max(Len(arr) + start, 0) ELSE Min(start, Len(arr))
  IN  SubSeq(arr, k + 1, Len(arr))

\* Mutant of AppendCaptured: the overflow check is missing.
AppendCapturedNoEvict(prev, id, event, cap) ==
  Append(prev, [id |-> id, event |-> event, expanded |-> FALSE])

\* Mutant of AppendCaptured: slice(0, maxEvents) keeps the oldest entries.
AppendCapturedKeepOldest(prev, id, event, cap) ==
  LET newEvents == Append(prev, [id |-> id, event |-> event, expanded |-> FALSE])
  IN  IF Len(newEvents) > cap THEN SubSeq(newEvents, 1, cap) ELSE newEvents

\* Mutant of AppendCaptured: the new row is put first, [row, ...prev].
AppendCapturedPrepends(prev, id, event, cap) ==
  LET newEvents == <<[id |-> id, event |-> event, expanded |-> FALSE]>> \o prev
  IN  IF Len(newEvents) > cap THEN Slice(newEvents, 0 - cap) ELSE newEvents

\* The updater passed to setCapturedEvents by the onAll handler.
AppendCaptured(prev, id, event, cap) ==
  LET newEvents == Append(prev, [id |-> id, event |-> event, expanded |-> FALSE])
  IN  IF Len(newEvents) > cap THEN Slice(newEvents, 0 - cap) ELSE newEvents

\* Mutant of NextId: eventIdRef.current is read but not incremented.
NextIdNoIncrement(idRef) == idRef

\* The id the handler gives the event: ++eventIdRef.current
NextId(idRef) == idRef + 1

\* Mutant of Handler: the id is taken before the paused check.
HandlerCountsWhilePaused(h, st, event) ==
  LET id == NextId(st.idRef)
  IN  IF isPausedRef THEN [st EXCEPT !.idRef = id]
      ELSE [buf    |-> AppendCaptured(st.buf, id, event, h.maxEvents),
            idRef  |-> id,
            issued |-> Append(st.issued, id)]

\* Mutant of Handler: the paused check is missing.
HandlerIgnoresPause(h, st, event) ==
  LET id == NextId(st.idRef)
  IN  [buf    |-> AppendCaptured(st.buf, id, event, h.maxEvents),
       idRef  |-> id,
       issued |-> Append(st.issued, id)]

\* The handler registered with onAll, run on one event.  st carries
\* capturedEvents (buf), eventIdRef.current (idRef) and the issued history.
Handler(h, st, event) ==
  IF isPausedRef THEN st
  ELSE LET id == NextId(st.idRef)
       IN  [buf    |-> AppendCaptured(st.buf, id, event, h.maxEvents),
            idRef  |-> id,
            issued |-> Append(st.issued, id)]

\* The host calls every registered wildcard handler, in registration order.
RECURSIVE EmitAll(_, _, _)
EmitAll(handlers, st, event) ==
  IF handlers = <<>> THEN st
  ELSE EmitAll(Tail(handlers), Handler(Head(handlers), st, event), event)

\* Mutant of PassesFilter: the filter strings are not lower-cased.
PassesFilterCaseSensitive(e) ==
  IF Truthy(filterType)
       /\ ~Includes(ToLowerCase(e.event.type), filterType)
    THEN FALSE
  ELSE IF Truthy(filterSource)
       /\ ~Includes(ToLowerCase(e.event.source), filterSource)
    THEN FALSE
  ELSE TRUE

\* Mutant of PassesFilter: an empty filter string rejects the row
\* (!filterType || ... in place of filterType && ...).
PassesFilterRequiresFilter(e) ==
  IF ~Truthy(filterType)
       \/ ~Includes(ToLowerCase(e.event.type), ToLowerCase(filterType))
    THEN FALSE
  ELSE IF ~Truthy(filterSource)
       \/ ~Includes(ToLowerCase(e.event.source), ToLowerCase(filterSource))
    THEN FALSE
  ELSE TRUE

\* One row passes the filters (the callback of capturedEvents.filter).
PassesFilter(e) ==
  IF Truthy(filterType)
       /\ ~Includes(ToLowerCase(e.event.type), ToLowerCase(filterType))
    THEN FALSE
  ELSE IF Truthy(filterSource)
       /\ ~Includes(ToLowerCase(e.event.source), ToLowerCase(filterSource))
    THEN FALSE
  ELSE TRUE

\* const filteredEvents = capturedEvents.filter(...)
RECURSIVE FilterRows(_)
FilterRows(rows) ==
  IF rows = <<>> THEN <<>>
  ELSE IF PassesFilter(Head(rows))
    THEN <<Head(rows)>> \o FilterRows(Tail(rows))
    ELSE FilterRows(Tail(rows))

filteredEvents == FilterRows(capturedEvents)

\* The ids of the rows of a list.
RowIds(rows) == { rows[i].id : i \in DOMAIN rows }

hasActiveFilters == Truthy(filterType) \/ Truthy(filterSource)

\* Mutant of EventListPlaceholder: the inner test reads the visible list.
EventListPlaceholderVisibleOnly ==
  IF Len(filteredEvents) = 0
    THEN IF Len(filteredEvents) = 0
           THEN <<"Waiting for events...">>
           ELSE <<"No events match your filter">>
    ELSE <<>>

\* The Event List's placeholder: the text shown in place of the rows, <<>>
\* when rows are shown.
EventListPlaceholder ==
  IF Len(filteredEvents) = 0
    THEN IF Len(capturedEvents) = 0
           THEN <<"Waiting for events...">>
           ELSE <<"No events match your filter">>
    ELSE <<>>

\* The Event List's rows, by key: none when the placeholder is shown.
EventListRows ==
  LET visible == filteredEvents IN
    IF Len(visible) = 0 THEN <<>>
    ELSE [i \in 1..Len(visible) |-> visible[i].id]

\* new Set(arr) filled from an array: a value already in the set is skipped,
\* the others are added in iteration order.
RECURSIVE SetFrom(_, _)
SetFrom(acc, arr) ==
  IF arr = <<>> THEN acc
  ELSE SetFrom(IF \E i \in DOMAIN acc : acc[i] = Head(arr)
                 THEN acc ELSE Append(acc, Head(arr)),
               Tail(arr))

\* Mutant of Unique: a repeated value takes the place of its last
\* occurrence.
UniqueKeepsLast(arr) ==
  LET idx == { i \in DOMAIN arr :
                 \A j \in (i + 1)..Len(arr) : arr[j] # arr[i] }
  IN  [k \in 1..Cardinality(idx) |->
         arr[CHOOSE i \in idx : Cardinality({j \in idx : j <= i}) = k]]

\* [...new Set(arr)]: the distinct values in insertion order.
Unique(arr) == SetFrom(<<>>, arr)

uniqueTypes ==
  Unique([i \in 1..Len(capturedEvents) |-> capturedEvents[i].event.type])

uniqueSources ==
  Unique([i \in 1..Len(capturedEvents) |-> capturedEvents[i].event.source])

\* events?.onAll is defined: "bus" is an emitter whose onAll registers the
\* handler, "story" the emitter of the InPanelContext story.
HasOnAll(ev) == ev \in {"bus", "story"}

\* Mutant of SubscribeOutcome: onAll is called without the capability
\* check, a TypeError when it is missing.
SubscribeOutcomeUnchecked(ev) == IF HasOnAll(ev) THEN "subscribe" ELSE "throw"

\* The capability check of the subscription effect:
\*   if (!extendedEvents?.onAll) return;
\* "skip" returns without subscribing, "subscribe" goes on to call onAll,
\* "throw" is a TypeError.
SubscribeOutcome(ev) == IF HasOnAll(ev) THEN "subscribe" ELSE "skip"

\* Host emitter, onAll(handler): registers the handler.
HostOnAll(handlers, h) == Append(handlers, h)

\* Host emitter, the function onAll returned: deregisters that handler.
HostUnsubscribe(handlers, hid) == SelectSeq(handlers, LAMBDA h : h.hid # hid)

\* The onAll of the InPanelContext story: the handler is not registered
\* with the emitter, one call of it is scheduled with setTimeout.
StoryOnAll(pending, h) == Append(pending, h)

\* The function the InPanelContext story's onAll returns: () => {}
StoryUnsubscribe(handlers, hid) == handlers

\* The handler the subscription effect creates in a render with this
\* maxEvents; hid names the registration.
NewHandler(hid) == [hid |-> hid, maxEvents |-> maxEvents]

\* No run of the isPausedRef effect or of the subscription effect is pending.  React flushes pending
\* passive effects before it handles a click or an input event, so the
\* buttons and inputs act only in such states; the host's dispatches are
\* not React events and may come before the effect has run.
EffectsFlushed == isPausedRef = isPaused /\ subDeps = <<events, maxEvents>>

\* The panel is subscribed: a handler the subscription effect registered
\* is still registered with the emitter, whatever the props of the current
\* render are.
Subscribed == phase = "mounted" /\ hostHandlers # <<>>

\* The body of the subscription effect, run with the emitter's handlers as
\* they are once the previous run's cleanup, if any, has been called.
SubscribeEffect(handlers) ==
  LET outcome == SubscribeOutcome(events) IN
    /\ threw' = (threw \/ outcome = "throw")
    /\ subDeps' = <<events, maxEvents>>
    /\ IF outcome = "subscribe"
         THEN /\ nextHid' = nextHid + 1
              /\ cleanup' = nextHid + 1
              /\ IF events = "story"
                   THEN /\ hostHandlers' = handlers
                        /\ timers' = StoryOnAll(timers, NewHandler(nextHid + 1))
                   ELSE /\ hostHandlers' = HostOnAll(handlers, NewHandler(nextHid + 1))
                        /\ timers' = timers
         ELSE /\ hostHandlers' = handlers
              /\ cleanup' = 0
              /\ UNCHANGED <<nextHid, timers>>

\* The emitter's handlers after React has called the cleanup the previous
\* run of the subscription effect returned, if it returned one.
AfterCleanup ==
  IF cleanup = 0 THEN hostHandlers
  ELSE IF subDeps[1] = "story" THEN StoryUnsubscribe(hostHandlers, cleanup)
  ELSE HostUnsubscribe(hostHandlers, cleanup)

Last(seq) == seq[Len(seq)]

\* ------------------------------------------------- AgentToolsPanelContent
\* The names of the capability entries an agentConfig may carry, in the
\* order in which the object lists them.
CapabilityKeys == <<"streaming", "codeExecution", "fileAccess">>

\* What an object holds under a key: no such key, or a value.
EntryValues == {"absent", "true", "false", "undefined"}

\* JavaScript truthiness of a capability value.
JsTruthy(v) == v = "true"

NoEntries == [k \in DOMAIN CapabilityKeys |-> "absent"]

\* agentConfig is undefined.
NoAgentConfig ==
  [present |-> FALSE, id |-> "", name |-> "",
   tools |-> [defined |-> FALSE, items |-> <<>>],
   capabilities |-> [defined |-> FALSE, entries |-> NoEntries]]

\* The values of the agentConfig prop: undefined, or a config whose tools
\* are missing, empty or listed and whose capabilities are missing or an
\* object over CapabilityKeys (minimalAgentConfig has neither field).
AgentConfigs ==
  {NoAgentConfig} \cup
  { [present |-> TRUE, id |-> "minimal.agent", name |-> "Minimal Agent",
     tools |-> t, capabilities |-> c] :
      t \in { [defined |-> FALSE, items |-> <<>>],
              [defined |-> TRUE, items |-> <<>>],
              [defined |-> TRUE, items |-> <<"read_file">>],
              [defined |-> TRUE, items |-> <<"read_file", "run_tests">>] },
      c \in { [defined |-> FALSE, entries |-> NoEntries] } \cup
            { [defined |-> TRUE, entries |-> e] :
                e \in [DOMAIN CapabilityKeys -> EntryValues] } }

\* const config = agentConfig || { id: 'no-agent', ..., tools: [] }
config ==
  IF agentConfig.present THEN agentConfig
  ELSE [present |-> TRUE, id |-> "no-agent", name |-> "No Agent Loaded",
        tools |-> [defined |-> TRUE, items |-> <<>>],
        capabilities |-> [defined |-> FALSE, entries |-> NoEntries]]

\* Mutant of tools: config.tools without the fallback.
toolsNoFallback == config.tools

\* const tools = config.tools || []
tools ==
  IF config.tools.defined THEN config.tools
  ELSE [defined |-> TRUE, items |-> <<>>]

\* const capabilities = config.capabilities || {}
capabilities ==
  IF config.capabilities.defined THEN config.capabilities
  ELSE [defined |-> TRUE, entries |-> NoEntries]

\* Object.entries: the [name, value] pairs of the keys the object has, in
\* the object's order.
RECURSIVE EntriesFrom(_, _)
EntriesFrom(obj, k) ==
  IF k > Len(CapabilityKeys) THEN <<>>
  ELSE IF obj.entries[k] = "absent" THEN EntriesFrom(obj, k + 1)
  ELSE <<<<CapabilityKeys[k], obj.entries[k]>>>> \o EntriesFrom(obj, k + 1)

ObjectEntries(obj) == EntriesFrom(obj, 1)

\* Object.entries(capabilities).filter(([, enabled]) => enabled)
enabledCapabilities ==
  SelectSeq(ObjectEntries(capabilities), LAMBDA e : JsTruthy(e[2]))

\* The render reads tools.length and calls Object.entries(capabilities):
\* a TypeError if either is undefined.
RenderThrows == ~tools.defined \/ ~capabilities.defined

\* The header's agent name and the footer's config id.
RenderedName == config.name
RenderedId == config.id

\* The CapabilityBadge elements of the header, by name.
CapabilityBadges ==
  IF Len(enabledCapabilities) > 0
    THEN [i \in 1..Len(enabledCapabilities) |-> enabledCapabilities[i][1]]
    ELSE <<>>

\* The count on the Tools tab button: tools.length
ToolCount == Len(tools.items)

\* The content of the Tools tab: the placeholder or the ToolItem elements,
\* by tool name; nothing of it is rendered on the other tab.
ToolsTabContent ==
  IF activeTab = "tools"
    THEN IF Len(tools.items) = 0
           THEN [shown |-> TRUE, placeholder |-> <<"No tools defined">>,
                 items |-> <<>>]
           ELSE [shown |-> TRUE, placeholder |-> <<>>, items |-> tools.items]
    ELSE [shown |-> FALSE, placeholder |-> <<>>, items |-> <<>>]

\* The AgentToolsPanel is not rendered.
NoAgentToolsPanel ==
  /\ agentConfig = NoAgentConfig
  /\ activeTab = "prompt"
  /\ isNarrow = FALSE

\* ---------------------------------------------------------------- Init
\* The state of the component after its first render, whatever the props.
Constructed ==
  /\ phase = "rendered"
  /\ capturedEvents = <<>>
  /\ isPaused = FALSE
  /\ isPausedRef = FALSE
  /\ filterType = <<>>
  /\ filterSource = <<>>
  /\ eventIdRef = 0
  /\ hostHandlers = <<>>
  /\ cleanup = 0
  /\ nextHid = 0
  /\ subDeps = <<>>
  /\ timers = <<>>
  /\ unsubCalls = 0
  /\ pausedStamps = {}
  /\ threw = FALSE
  /\ nDispatched = 0
  /\ issued = <<>>
  /\ liveRun = <<>>
  /\ lastOp = "other"
  /\ pausedDrops = 0
  /\ resumePhase = "none"

Init ==
  /\ events \in EventsProps
  /\ maxEvents \in 1..MaxCap
  /\ Constructed
  /\ NoAgentToolsPanel

\* The panel rendered with a maxEvents that is not positive.
InitNonPositive ==
  /\ events = "bus"
  /\ maxEvents \in {0 - 1, 0}
  /\ Constructed
  /\ NoAgentToolsPanel

\* The panel on an emitter with onAll, with capacities up to one more than
\* MaxCap.
InitWide ==
  /\ events = "bus"
  /\ maxEvents \in 1..(MaxCap + 1)
  /\ Constructed
  /\ NoAgentToolsPanel

\* maxEvents = 200: the default of the parameter, used when the prop is
\* not passed.
DefaultMaxEvents == 200

\* The panel rendered by the InPanelContext story, which passes the emitter
\* and no maxEvents.
InitStory ==
  /\ events = "story"
  /\ maxEvents = DefaultMaxEvents
  /\ Constructed
  /\ NoAgentToolsPanel

\* AgentToolsPanelContent after its first render, the event bus panel not
\* being rendered.
InitAgentTools ==
  /\ agentConfig \in AgentConfigs
  /\ activeTab = "prompt"
  /\ isNarrow = FALSE
  /\ events = "absent"
  /\ maxEvents = 1
  /\ Constructed

\* ---------------------------------------------------------------- actions
\* The event bus panel's variables.
busVars == << phase, events, maxEvents, capturedEvents, isPaused, isPausedRef,
              filterType, filterSource, eventIdRef, hostHandlers, cleanup,
              nextHid, subDeps, timers, threw, nDispatched, unsubCalls,
              issued, liveRun, lastOp, pausedDrops, pausedStamps,
              resumePhase >>

\* A tab button of the AgentToolsPanel: setActiveTab(tab)
SetActiveTab(tab) ==
  /\ tab # activeTab
  /\ activeTab' = tab
  /\ UNCHANGED <<agentConfig, isNarrow>>
  /\ UNCHANGED busVars

\* The ResizeObserver callback of the AgentToolsPanel:
\* setIsNarrow(width < 350)
Resize(width) ==
  /\ isNarrow' = (width < NarrowWidth)
  /\ isNarrow' # isNarrow
  /\ UNCHANGED <<agentConfig, activeTab>>
  /\ UNCHANGED busVars

\* The subscription effect, run after the first commit.
Mount ==
  /\ phase = "rendered"
  /\ phase' = "mounted"
  /\ SubscribeEffect(hostHandlers)
  /\ lastOp' = "other"
  /\ UNCHANGED <<events, maxEvents, capturedEvents, isPaused, isPausedRef,
                 filterType, filterSource, eventIdRef, nDispatched,
                 unsubCalls, issued, liveRun, pausedDrops, pausedStamps,
                 resumePhase>>
  /\ UNCHANGED <<agentConfig, activeTab, isNarrow>>

\* Mutant of Unmount: the effect returns nothing, the subscription is
\* never cancelled.
UnmountNoCleanup ==
  /\ phase = "mounted"
  /\ phase' = "unmounted"
  /\ lastOp' = "other"
  /\ UNCHANGED <<events, maxEvents, capturedEvents, isPaused, isPausedRef,
                 filterType, filterSource, eventIdRef, hostHandlers, cleanup,
                 nextHid, subDeps, timers, threw, nDispatched, unsubCalls,
                 issued, liveRun, pausedDrops, pausedStamps, resumePhase>>
  /\ UNCHANGED <<agentConfig, activeTab, isNarrow>>

\* Teardown: React runs the cleanup the subscription effect returned, if any.
Unmount ==
  /\ phase = "mounted"
  /\ phase' = "unmounted"
  /\ hostHandlers' = AfterCleanup
  /\ unsubCalls' = IF cleanup = 0 THEN unsubCalls ELSE unsubCalls + 1
  /\ cleanup' = 0
  /\ lastOp' = "other"
  /\ UNCHANGED <<events, maxEvents, capturedEvents, isPaused, isPausedRef,
                 filterType, filterSource, eventIdRef, nextHid, subDeps,
                 timers, threw, nDispatched, issued, liveRun, pausedDrops,
                 pausedStamps, resumePhase>>
  /\ UNCHANGED <<agentConfig, activeTab, isNarrow>>

\* The host dispatches one event: every registered wildcard handler runs.
Dispatch(kind) ==
  /\ nDispatched < MaxDispatch
  /\ LET event == [type |-> kind[1], source |-> kind[2],
                   timestamp |-> nDispatched + 1]
         st == EmitAll(hostHandlers,
                       [buf |-> capturedEvents, idRef |-> eventIdRef,
                        issued |-> issued],
                       event)
         live == Subscribed /\ ~isPaused /\ ~isPausedRef
     IN /\ capturedEvents' = st.buf
        /\ eventIdRef' = st.idRef
        /\ issued' = st.issued
        /\ liveRun' = IF live THEN Append(liveRun, event) ELSE <<>>
        /\ resumePhase' = IF resumePhase = "resumed" /\ live THEN "first"
                          ELSE "none"
  /\ pausedDrops' = IF phase = "mounted" /\ isPaused /\ isPausedRef
                      THEN pausedDrops + 1 ELSE pausedDrops
  /\ pausedStamps' = IF phase = "mounted" /\ isPaused /\ isPausedRef
                       THEN pausedStamps \cup {nDispatched + 1}
                       ELSE pausedStamps
  /\ nDispatched' = nDispatched + 1
  /\ lastOp' = "other"
  /\ UNCHANGED <<phase, events, maxEvents, isPaused, isPausedRef, filterType,
                 filterSource, hostHandlers, cleanup, nextHid, subDeps,
                 timers, threw, unsubCalls>>
  /\ UNCHANGED <<agentConfig, activeTab, isNarrow>>

\* A timer the InPanelContext story's onAll has set expires: the handler
\* runs on the story's event.  React drops a state update of a component
\* that is no longer mounted; the ref the handler increments lives on.
TimerFires ==
  /\ timers # <<>>
  /\ nDispatched < MaxDispatch
  /\ LET event == [type |-> TypePanelMounted, source |-> SourceEventBusPanel,
                   timestamp |-> nDispatched + 1]
         st == Handler(Head(timers),
                       [buf |-> capturedEvents, idRef |-> eventIdRef,
                        issued |-> issued],
                       event)
         live == phase = "mounted" /\ ~isPaused /\ ~isPausedRef
     IN /\ capturedEvents' = IF phase = "mounted" THEN st.buf
                             ELSE capturedEvents
        /\ eventIdRef' = st.idRef
        /\ issued' = st.issued
        /\ liveRun' = IF live THEN Append(liveRun, event) ELSE <<>>
        /\ resumePhase' = IF resumePhase = "resumed" /\ live THEN "first"
                          ELSE "none"
  /\ timers' = Tail(timers)
  /\ pausedDrops' = IF phase = "mounted" /\ isPaused /\ isPausedRef
                      THEN pausedDrops + 1 ELSE pausedDrops
  /\ pausedStamps' = IF phase = "mounted" /\ isPaused /\ isPausedRef
                       THEN pausedStamps \cup {nDispatched + 1}
                       ELSE pausedStamps
  /\ nDispatched' = nDispatched + 1
  /\ lastOp' = "other"
  /\ UNCHANGED <<phase, events, maxEvents, isPaused, isPausedRef, filterType,
                 filterSource, hostHandlers, cleanup, nextHid, subDeps,
                 threw, unsubCalls>>
  /\ UNCHANGED <<agentConfig, activeTab, isNarrow>>

\* The parent renders the panel again with another maxEvents.
SetMaxEvents(n) ==
  /\ phase = "mounted"
  /\ EffectsFlushed
  /\ n # maxEvents
  /\ nextHid < MaxSubs
  /\ maxEvents' = n
  /\ lastOp' = "other"
  /\ UNCHANGED <<phase, events, capturedEvents, isPaused, isPausedRef,
                 filterType, filterSource, eventIdRef, hostHandlers, cleanup,
                 nextHid, subDeps, timers, threw, nDispatched, unsubCalls,
                 issued, liveRun, pausedDrops, pausedStamps, resumePhase>>
  /\ UNCHANGED <<agentConfig, activeTab, isNarrow>>

\* The parent renders the panel again with another events prop.
SetEvents(e) ==
  /\ phase = "mounted"
  /\ EffectsFlushed
  /\ e # events
  /\ nextHid < MaxSubs
  /\ events' = e
  /\ lastOp' = "other"
  /\ UNCHANGED <<phase, maxEvents, capturedEvents, isPaused, isPausedRef,
                 filterType, filterSource, eventIdRef, hostHandlers, cleanup,
                 nextHid, subDeps, timers, threw, nDispatched, unsubCalls,
                 issued, liveRun, pausedDrops, pausedStamps, resumePhase>>
  /\ UNCHANGED <<agentConfig, activeTab, isNarrow>>

\* Mutant of Resubscribe: the effect returns no cleanup, the previous
\* handler stays registered beside the new one.
ResubscribeNoCleanup ==
  /\ phase = "mounted"
  /\ subDeps # <<events, maxEvents>>
  /\ SubscribeEffect(hostHandlers)
  /\ lastOp' = "other"
  /\ UNCHANGED <<phase, events, maxEvents, capturedEvents, isPaused,
                 isPausedRef, filterType, filterSource, eventIdRef,
                 nDispatched, unsubCalls, issued, liveRun, pausedDrops,
                 pausedStamps, resumePhase>>
  /\ UNCHANGED <<agentConfig, activeTab, isNarrow>>

\* The subscription effect runs again after a render in which events or
\* maxEvents changed: the previous run's cleanup, then the effect's body.
Resubscribe ==
  /\ phase = "mounted"
  /\ subDeps # <<events, maxEvents>>
  /\ unsubCalls' = IF cleanup = 0 THEN unsubCalls ELSE unsubCalls + 1
  /\ SubscribeEffect(AfterCleanup)
  /\ lastOp' = "other"
  /\ UNCHANGED <<phase, events, maxEvents, capturedEvents, isPaused,
                 isPausedRef, filterType, filterSource, eventIdRef,
                 nDispatched, issued, liveRun, pausedDrops, pausedStamps,
                 resumePhase>>
  /\ UNCHANGED <<agentConfig, activeTab, isNarrow>>

\* Mutant of TogglePause: the subscription is renewed with the pause state,
\* as if isPaused were a dependency of the subscription effect.
TogglePauseResubscribes ==
  /\ phase = "mounted"
  /\ EffectsFlushed
  /\ isPaused' = ~isPaused
  /\ resumePhase' = IF isPaused THEN "resumed" ELSE "none"
  /\ pausedDrops' = 0
  /\ lastOp' = "other"
  /\ unsubCalls' = IF cleanup = 0 THEN unsubCalls ELSE unsubCalls + 1
  /\ SubscribeEffect(AfterCleanup)
  /\ UNCHANGED <<phase, events, maxEvents, capturedEvents, isPausedRef,
                 filterType, filterSource, eventIdRef, nDispatched, issued,
                 liveRun, pausedStamps>>
  /\ UNCHANGED <<agentConfig, activeTab, isNarrow>>

\* Pause/Resume button: setIsPaused(!isPaused)
TogglePause ==
  /\ phase = "mounted"
  /\ EffectsFlushed
  /\ isPaused' = ~isPaused
  /\ resumePhase' = IF isPaused THEN "resumed" ELSE "none"
  /\ pausedDrops' = 0
  /\ lastOp' = "other"
  /\ UNCHANGED <<phase, events, maxEvents, capturedEvents, isPausedRef,
                 filterType, filterSource, eventIdRef, hostHandlers, cleanup,
                 nextHid, threw, nDispatched, issued, liveRun>>
  /\ UNCHANGED <<subDeps, timers, unsubCalls, pausedStamps>>
  /\ UNCHANGED <<agentConfig, activeTab, isNarrow>>

\* The effect with dependency [isPaused]: isPausedRef.current = isPaused.
\* It runs after the render that follows the click.
SyncPausedRef ==
  /\ phase = "mounted"
  /\ isPausedRef # isPaused
  /\ isPausedRef' = isPaused
  /\ lastOp' = "other"
  /\ UNCHANGED <<phase, events, maxEvents, capturedEvents, isPaused,
                 filterType, filterSource, eventIdRef, hostHandlers, cleanup,
                 nextHid, threw, nDispatched, issued, liveRun, pausedDrops,
                 resumePhase>>
  /\ UNCHANGED <<subDeps, timers, unsubCalls, pausedStamps>>
  /\ UNCHANGED <<agentConfig, activeTab, isNarrow>>

\* Mutant of clearEvents: the id counter is reset with the list.
clearEventsResetsIds ==
  /\ phase = "mounted"
  /\ EffectsFlushed
  /\ capturedEvents' = <<>>
  /\ eventIdRef' = 0
  /\ liveRun' = <<>>
  /\ lastOp' = "clearEvents"
  /\ UNCHANGED <<phase, events, maxEvents, isPaused, isPausedRef, filterType,
                 filterSource, hostHandlers, cleanup, nextHid,
                 threw, nDispatched, issued, pausedDrops, resumePhase>>
  /\ UNCHANGED <<subDeps, timers, unsubCalls, pausedStamps>>
  /\ UNCHANGED <<agentConfig, activeTab, isNarrow>>

\* Mutant of clearEvents: only the rows that pass the filters are removed.
clearEventsVisibleOnly ==
  /\ phase = "mounted"
  /\ EffectsFlushed
  /\ capturedEvents' = SelectSeq(capturedEvents, LAMBDA e : ~PassesFilter(e))
  /\ liveRun' = <<>>
  /\ lastOp' = "clearEvents"
  /\ UNCHANGED <<phase, events, maxEvents, isPaused, isPausedRef, filterType,
                 filterSource, eventIdRef, hostHandlers, cleanup, nextHid,
                 threw, nDispatched, issued, pausedDrops, resumePhase>>
  /\ UNCHANGED <<subDeps, timers, unsubCalls, pausedStamps>>
  /\ UNCHANGED <<agentConfig, activeTab, isNarrow>>

\* Mutant of clearEvents: the panel announces the clear on the host bus.
clearEventsAnnounces ==
  /\ phase = "mounted"
  /\ EffectsFlushed
  /\ nDispatched < MaxDispatch
  /\ capturedEvents' = <<>>
  /\ liveRun' = <<>>
  /\ lastOp' = "clearEvents"
  /\ nDispatched' = nDispatched + 1
  /\ UNCHANGED <<phase, events, maxEvents, isPaused, isPausedRef, filterType,
                 filterSource, eventIdRef, hostHandlers, cleanup, nextHid,
                 threw, issued, pausedDrops, resumePhase>>
  /\ UNCHANGED <<subDeps, timers, unsubCalls, pausedStamps>>
  /\ UNCHANGED <<agentConfig, activeTab, isNarrow>>

\* Mutant of clearEvents: the button clears the filters as well.
clearEventsClearsFilters ==
  /\ phase = "mounted"
  /\ EffectsFlushed
  /\ capturedEvents' = <<>>
  /\ liveRun' = <<>>
  /\ filterType' = <<>>
  /\ filterSource' = <<>>
  /\ lastOp' = "clearEvents"
  /\ UNCHANGED <<phase, events, maxEvents, isPaused, isPausedRef,
                 eventIdRef, hostHandlers, cleanup, nextHid,
                 threw, nDispatched, issued, pausedDrops, resumePhase>>
  /\ UNCHANGED <<subDeps, timers, unsubCalls, pausedStamps>>
  /\ UNCHANGED <<agentConfig, activeTab, isNarrow>>

\* Clear button: setCapturedEvents([])
clearEvents ==
  /\ phase = "mounted"
  /\ EffectsFlushed
  /\ capturedEvents' = <<>>
  /\ liveRun' = <<>>
  /\ lastOp' = "clearEvents"
  /\ UNCHANGED <<phase, events, maxEvents, isPaused, isPausedRef, filterType,
                 filterSource, eventIdRef, hostHandlers, cleanup, nextHid,
                 threw, nDispatched, issued, pausedDrops, resumePhase>>
  /\ UNCHANGED <<subDeps, timers, unsubCalls, pausedStamps>>
  /\ UNCHANGED <<agentConfig, activeTab, isNarrow>>

\* Mutant of toggleExpanded: expanding a row collapses every other row.
toggleExpandedCollapsesOthers(id) ==
  /\ phase = "mounted"
  /\ EffectsFlushed
  /\ id \in RowIds(filteredEvents)
  /\ capturedEvents' =
       [i \in 1..Len(capturedEvents) |->
          IF capturedEvents[i].id = id
            THEN [capturedEvents[i] EXCEPT !.expanded = ~capturedEvents[i].expanded]
            ELSE [capturedEvents[i] EXCEPT !.expanded = FALSE]]
  /\ lastOp' = "other"
  /\ UNCHANGED <<phase, events, maxEvents, isPaused, isPausedRef, filterType,
                 filterSource, eventIdRef, hostHandlers, cleanup, nextHid,
                 threw, nDispatched, issued, liveRun, pausedDrops, resumePhase>>
  /\ UNCHANGED <<subDeps, timers, unsubCalls, pausedStamps>>
  /\ UNCHANGED <<agentConfig, activeTab, isNarrow>>

\* Row header click: toggleExpanded(captured.id); only visible rows render.
toggleExpanded(id) ==
  /\ phase = "mounted"
  /\ EffectsFlushed
  /\ id \in RowIds(filteredEvents)
  /\ capturedEvents' =
       [i \in 1..Len(capturedEvents) |->
          IF capturedEvents[i].id = id
            THEN [capturedEvents[i] EXCEPT !.expanded = ~capturedEvents[i].expanded]
            ELSE capturedEvents[i]]
  /\ lastOp' = "other"
  /\ UNCHANGED <<phase, events, maxEvents, isPaused, isPausedRef, filterType,
                 filterSource, eventIdRef, hostHandlers, cleanup, nextHid,
                 threw, nDispatched, issued, liveRun, pausedDrops, resumePhase>>
  /\ UNCHANGED <<subDeps, timers, unsubCalls, pausedStamps>>
  /\ UNCHANGED <<agentConfig, activeTab, isNarrow>>

\* "Type..." input: setFilterType(e.target.value)
SetFilterType(v) ==
  /\ phase = "mounted"
  /\ EffectsFlushed
  /\ v # filterType
  /\ filterType' = v
  /\ lastOp' = "other"
  /\ UNCHANGED <<phase, events, maxEvents, capturedEvents, isPaused,
                 isPausedRef, filterSource, eventIdRef, hostHandlers, cleanup,
                 nextHid, threw, nDispatched, issued, liveRun, pausedDrops,
                 resumePhase>>
  /\ UNCHANGED <<subDeps, timers, unsubCalls, pausedStamps>>
  /\ UNCHANGED <<agentConfig, activeTab, isNarrow>>

\* "Source..." input: setFilterSource(e.target.value)
SetFilterSource(v) ==
  /\ phase = "mounted"
  /\ EffectsFlushed
  /\ v # filterSource
  /\ filterSource' = v
  /\ lastOp' = "other"
  /\ UNCHANGED <<phase, events, maxEvents, capturedEvents, isPaused,
                 isPausedRef, filterType, eventIdRef, hostHandlers, cleanup,
                 nextHid, threw, nDispatched, issued, liveRun, pausedDrops,
                 resumePhase>>
  /\ UNCHANGED <<subDeps, timers, unsubCalls, pausedStamps>>
  /\ UNCHANGED <<agentConfig, activeTab, isNarrow>>

\* Mutant of clearFilters: the button clears the list as well.
clearFiltersClearsEvents ==
  /\ phase = "mounted"
  /\ EffectsFlushed
  /\ hasActiveFilters
  /\ filterType' = <<>>
  /\ filterSource' = <<>>
  /\ capturedEvents' = <<>>
  /\ lastOp' = "clearFilters"
  /\ UNCHANGED <<phase, events, maxEvents, isPaused,
                 isPausedRef, eventIdRef, hostHandlers, cleanup, nextHid,
                 threw, nDispatched, issued, liveRun, pausedDrops, resumePhase>>
  /\ UNCHANGED <<subDeps, timers, unsubCalls, pausedStamps>>
  /\ UNCHANGED <<agentConfig, activeTab, isNarrow>>

\* Clear-filters button, rendered only when hasActiveFilters.
clearFilters ==
  /\ phase = "mounted"
  /\ EffectsFlushed
  /\ hasActiveFilters
  /\ filterType' = <<>>
  /\ filterSource' = <<>>
  /\ lastOp' = "clearFilters"
  /\ UNCHANGED <<phase, events, maxEvents, capturedEvents, isPaused,
                 isPausedRef, eventIdRef, hostHandlers, cleanup, nextHid,
                 threw, nDispatched, issued, liveRun, pausedDrops, resumePhase>>
  /\ UNCHANGED <<subDeps, timers, unsubCalls, pausedStamps>>
  /\ UNCHANGED <<agentConfig, activeTab, isNarrow>>

Next ==
  \/ Mount
  \/ Unmount
  \/ \E kind \in EventKinds : Dispatch(kind)
  \/ TogglePause
  \/ SyncPausedRef
  \/ clearEvents
  \/ \E id \in 1..MaxDispatch : toggleExpanded(id)
  \/ \E v \in FilterTypeInputs : SetFilterType(v)
  \/ \E v \in FilterSourceInputs : SetFilterSource(v)
  \/ clearFilters

Spec == Init /\ [][Next]_vars

\* The panel with a maxEvents that is not positive.
SpecNonPositive == InitNonPositive /\ [][Next]_vars

\* The panel in the InPanelContext story.
NextStory ==
  \/ Next
  \/ TimerFires

SpecStory == InitStory /\ [][NextStory]_vars

\* The panel under a parent that changes the maxEvents prop.
NextProps ==
  \/ Next
  \/ \E n \in 1..MaxCap : SetMaxEvents(n)
  \/ Resubscribe

SpecProps == Init /\ [][NextProps]_vars

\* The subscription under a parent that changes either prop; the filters
\* and the rows' expansion, which the subscription does not read, stay as
\* constructed, and the host dispatches events of one kind.
NextResub ==
  \/ Mount
  \/ Unmount
  \/ Dispatch(<<TypePanelToggle, SourceUserAction>>)
  \/ TogglePause
  \/ SyncPausedRef
  \/ clearEvents
  \/ \E n \in 1..MaxCap : SetMaxEvents(n)
  \/ \E e \in EventsProps : SetEvents(e)
  \/ Resubscribe

SpecResub == Init /\ [][NextResub]_vars

\* The AgentToolsPanel on any agentConfig.
NextAgentTools ==
  \/ \E tab \in {"prompt", "tools"} : SetActiveTab(tab)
  \/ \E width \in {NarrowWidth - 1, NarrowWidth} : Resize(width)

SpecAgentTools == InitAgentTools /\ [][NextAgentTools]_vars

\* Capture and clear alone, for the lists derived from the buffer.
NextCapture ==
  \/ Mount
  \/ Unmount
  \/ \E kind \in EventKinds : Dispatch(kind)
  \/ clearEvents

SpecCapture == InitWide /\ [][NextCapture]_vars

\* ---------------------------------------------------------------- claims
\* The event records of a list of rows, in order.
EventsOf(rows) == [i \in 1..Len(rows) |-> rows[i].event]

\* The type strings of a list of events, in order.
TypesOf(evs) == [i \in 1..Len(evs) |-> evs[i].type]

\* C1: with a fixed maxEvents >= 1 the capture buffer never holds more than
\* maxEvents entries, whatever dispatches, pause toggles, clears, filter
\* edits and row toggles led to the state.
C1_LengthBound == maxEvents >= 1 => Len(capturedEvents) <= maxEvents

\* More events than fit were captured in a row: the buffer is full after
\* an eviction.
C1_Witness ==
  /\ Len(liveRun) > maxEvents
  /\ Len(capturedEvents) = maxEvents
  /\ issued # <<>>

\* C2: after N > maxEvents events dispatched to the subscribed, unpaused
\* panel with no clear in between, the buffer has exactly maxEvents entries
\* and their event records are the last maxEvents dispatched, in order.
C2_KeepsLastMaxEvents ==
  Len(liveRun) > maxEvents =>
    /\ Len(capturedEvents) = maxEvents
    /\ EventsOf(capturedEvents) =
         SubSeq(liveRun, Len(liveRun) - maxEvents + 1, Len(liveRun))

\* Three events of three types with maxEvents = 2 leave the last two.
C2_Witness ==
  /\ maxEvents = 2
  /\ TypesOf(liveRun) = <<TypePanelToggle, TypeFileOpened, TypeFileError>>
  /\ TypesOf(EventsOf(capturedEvents)) = <<TypeFileOpened, TypeFileError>>

\* C3: the ids of the buffer's entries strictly increase from front to back.
C3_IdsStrictlyIncrease ==
  \A i \in 1..Len(capturedEvents) : \A j \in 1..Len(capturedEvents) :
    i < j => capturedEvents[i].id < capturedEvents[j].id

\* Two entries survive an eviction or a clear, one of them expanded.
C3_Witness ==
  /\ Len(capturedEvents) >= 2
  /\ capturedEvents[1].id > 1
  /\ \E i \in 1..Len(capturedEvents) : capturedEvents[i].expanded

\* C4: clear does not reset the id counter: every id assigned is the
\* largest id assigned before it plus one, also when a clear came in
\* between, so no id is assigned twice; and right after a clear the counter
\* still holds the largest id assigned.
C4_IdsContinueAcrossClear ==
  /\ \A i \in 1..(Len(issued) - 1) : issued[i + 1] = issued[i] + 1
  /\ \A i \in 1..Len(issued) : \A j \in 1..Len(issued) :
       i # j => issued[i] # issued[j]
  /\ (lastOp = "clearEvents" /\ issued # <<>>) => eventIdRef = Last(issued)

\* With room for two entries the buffer holds only the entry of the latest
\* id, which is not the first id: the earlier entries were cleared.
C4_Witness ==
  /\ maxEvents = 2
  /\ Len(issued) >= 2
  /\ Len(capturedEvents) = 1
  /\ capturedEvents[1].id = Last(issued)

\* C5: right after the Clear button the capture buffer is empty, paused or
\* not and whatever the filters are.
C5_ClearEmpties == lastOp = "clearEvents" => capturedEvents = <<>>

\* Clear was clicked on a paused panel with a filter set, after events had
\* been captured.
C5_Witness ==
  /\ lastOp = "clearEvents"
  /\ isPaused
  /\ hasActiveFilters
  /\ issued # <<>>

\* A step in which the host dispatches one event.
DispatchStep == nDispatched' = nDispatched + 1

\* C6: while the panel is paused (the pause state and the flag the handler
\* reads are both set), an event dispatched by the host leaves the capture
\* buffer and the id counter unchanged.
C6_PausedDropsEvents ==
  [][(DispatchStep /\ isPaused /\ isPausedRef) =>
       (capturedEvents' = capturedEvents /\ eventIdRef' = eventIdRef)]_vars

\* Two events were dispatched during one pause of a subscribed panel that
\* holds captured events.
C6_Witness ==
  /\ Subscribed
  /\ isPaused /\ isPausedRef
  /\ pausedDrops >= 2
  /\ capturedEvents # <<>>

\* A step in which the host dispatches the first event after a resume to
\* the subscribed panel, the resume having reached the handler's flag.
FirstAfterResumeStep ==
  /\ DispatchStep
  /\ resumePhase = "resumed"
  /\ Subscribed /\ ~isPaused /\ ~isPausedRef

\* All but the last entry of a non-empty list.
Front(seq) == SubSeq(seq, 1, Len(seq) - 1)

\* C7 as stated: after a pause followed by a resume, the next dispatched
\* event grows the buffer by exactly one entry, the new event placed last.
C7_GrowsByOne ==
  [][FirstAfterResumeStep =>
       /\ Len(capturedEvents') = Len(capturedEvents) + 1
       /\ Last(capturedEvents').event = Last(liveRun')]_vars

\* C7 amended: after a pause followed by a resume, the next dispatched
\* event is placed last with a fresh id; the buffer grows by exactly one
\* entry when it held fewer than maxEvents entries, and otherwise stays at
\* maxEvents entries by dropping its oldest entry.
C7_AppendsOrEvicts ==
  [][FirstAfterResumeStep =>
       /\ capturedEvents' # <<>>
       /\ Last(capturedEvents').event = Last(liveRun')
       /\ Last(capturedEvents').id = eventIdRef + 1
       /\ Front(capturedEvents') =
            IF Len(capturedEvents) < maxEvents THEN capturedEvents
            ELSE Tail(capturedEvents)]_vars

\* The first event after a resume was captured by a buffer that was
\* already full.
C7_Witness ==
  /\ resumePhase = "first"
  /\ maxEvents = 2
  /\ Len(capturedEvents) = 2
  /\ Len(issued) >= 3
  /\ Last(capturedEvents).event = Last(liveRun)

\* Upper and lower case of the same letter.
CasePairs == { <<c, LowerMap[c]>> : c \in DOMAIN LowerMap }

\* Two characters are equal up to case.
SameLetter(a, b) == a = b \/ <<a, b>> \in CasePairs \/ <<b, a>> \in CasePairs

\* f occurs in s as a substring, compared case-insensitively.
ContainsIgnoringCase(s, f) ==
  \E k \in 0..(Len(s) - Len(f)) :
    \A i \in 1..Len(f) : SameLetter(s[k + i], f[i])

\* The row's type contains filterType and its source contains filterSource.
MatchesFilters(e) ==
  /\ ContainsIgnoringCase(e.event.type, filterType)
  /\ ContainsIgnoringCase(e.event.source, filterSource)

\* C8: the visible list is the subsequence, in buffer order, of the rows
\* whose type contains filterType and whose source contains filterSource,
\* case-insensitively; a source filter no row matches gives an empty list.
C8_VisibleIsMatchingSubsequence ==
  /\ filteredEvents = SelectSeq(capturedEvents, MatchesFilters)
  /\ (\A i \in 1..Len(capturedEvents) :
        ~ContainsIgnoringCase(capturedEvents[i].event.source, filterSource))
       => filteredEvents = <<>>

\* The filter "ERR" shows a file:error row and hides another row.
C8_Witness ==
  /\ filterType = <<"E","R","R">>
  /\ Len(capturedEvents) >= 2
  /\ filteredEvents # <<>>
  /\ filteredEvents # capturedEvents
  /\ \A i \in 1..Len(filteredEvents) : filteredEvents[i].event.type = TypeFileError

\* C9: with both filter strings empty the visible list is the whole
\* capture buffer, same rows in the same order.
C9_EmptyFiltersShowAll ==
  (filterType = <<>> /\ filterSource = <<>>) => filteredEvents = capturedEvents

\* The clear-filters button was clicked on a buffer of two rows.
C9_Witness ==
  /\ lastOp = "clearFilters"
  /\ filterType = <<>> /\ filterSource = <<>>
  /\ Len(capturedEvents) >= 2

\* C10: without the onAll capability, or without an events prop, the panel
\* never throws, never registers a handler and captures nothing, and its
\* teardown leaves the host untouched.
C10_NoCapabilityCapturesNothing ==
  events \in {"absent", "base"} =>
    /\ ~threw
    /\ hostHandlers = <<>>
    /\ nextHid = 0
    /\ cleanup = 0
    /\ capturedEvents = <<>>
    /\ eventIdRef = 0

\* A panel on an emitter without onAll was mounted and torn down after the
\* host had dispatched events.
C10_Witness ==
  /\ events = "base"
  /\ phase = "unmounted"
  /\ nDispatched >= 2

\* C11: on an emitter with onAll the mounted panel has made exactly one
\* registration and holds its unsubscribe function uncalled; after teardown
\* that function has been called exactly once and the handler is gone;
\* where no registration was made, teardown calls nothing and does not throw.
C11_OneRegistrationOneUnsubscribe ==
  /\ events = "bus" =>
       /\ phase = "rendered" =>
            (nextHid = 0 /\ unsubCalls = 0 /\ hostHandlers = <<>>)
       /\ phase = "mounted" =>
            /\ nextHid = 1
            /\ Len(hostHandlers) = 1
            /\ hostHandlers[1].hid = cleanup
            /\ unsubCalls = 0
       /\ phase = "unmounted" =>
            (nextHid = 1 /\ unsubCalls = 1 /\ hostHandlers = <<>>)
  /\ events \in {"absent", "base"} => (unsubCalls = 0 /\ ~threw)

\* A panel that captured an event on an emitter with onAll was torn down.
C11_Witness ==
  /\ events = "bus"
  /\ phase = "unmounted"
  /\ unsubCalls = 1
  /\ eventIdRef >= 1

\* C12: once the panel is torn down no dispatched event is captured: the
\* buffer is not appended to and no id is assigned.
C12_NoCaptureAfterTeardown ==
  [][phase = "unmounted" =>
       /\ capturedEvents' = capturedEvents
       /\ eventIdRef' = eventIdRef
       /\ issued' = issued]_vars

\* C13: a step that changes the pause state or the flag the handler reads
\* makes no registration and calls no unsubscribe function, and the handler
\* of the subscribed panel is registered in every paused state.
C13_PauseKeepsSubscription ==
  [][/\ (isPaused' # isPaused \/ isPausedRef' # isPausedRef) =>
          UNCHANGED <<hostHandlers, cleanup, nextHid, unsubCalls>>
     /\ (Subscribed /\ phase' = "mounted" /\ isPaused') =>
          /\ Len(hostHandlers') = 1
          /\ hostHandlers'[1].hid = cleanup']_vars

\* The subscribed panel was paused, dropped an event and was resumed, with
\* its one registration still in place.
C13_Witness ==
  /\ Subscribed
  /\ resumePhase = "resumed"
  /\ pausedStamps # {}
  /\ Len(hostHandlers) = 1
  /\ nextHid = 1

\* The dispatch ordinals (timestamps) of the rows of a list.
StampsOf(rows) == [i \in 1..Len(rows) |-> rows[i].event.timestamp]

\* C14: the buffer holds the captured events in the order of their
\* dispatch: of any two entries the one dispatched earlier is nearer the
\* front and has the smaller id.
C14_DispatchOrder ==
  \A i, j \in 1..Len(capturedEvents) :
    i < j =>
      /\ capturedEvents[i].event.timestamp < capturedEvents[j].event.timestamp
      /\ capturedEvents[i].id < capturedEvents[j].id

\* Two entries are retained whose dispatches were separated by a dropped
\* event.
C14_Witness ==
  /\ Len(capturedEvents) = 2
  /\ StampsOf(capturedEvents) = <<1, 3>>
  /\ capturedEvents[2].id = 2

\* C15: with the buffer at capacity (length = maxEvents >= 1) and the panel
\* subscribed and unpaused, a dispatched event removes exactly the oldest
\* entry and is added at the back; the length stays maxEvents.
C15_EvictsOldestAtCapacity ==
  [][(/\ DispatchStep
      /\ Subscribed /\ ~isPaused /\ ~isPausedRef
      /\ maxEvents >= 1
      /\ Len(capturedEvents) = maxEvents) =>
       /\ Len(capturedEvents') = maxEvents
       /\ SubSeq(capturedEvents', 1, maxEvents - 1) = Tail(capturedEvents)
       /\ Last(capturedEvents').event.timestamp = nDispatched'
       /\ Last(capturedEvents').id = eventIdRef + 1
       /\ ~Last(capturedEvents').expanded]_vars

\* A buffer of capacity two holds the second and third captured events,
\* the retained older one expanded.
C15_Witness ==
  /\ maxEvents = 2
  /\ Len(liveRun) = 3
  /\ RowIds(capturedEvents) = {2, 3}
  /\ capturedEvents[1].expanded

\* C16: a step that edits or clears a filter leaves the buffer, the id
\* counter, the pause state and the subscription unchanged, and the visible
\* list changes only when the buffer or a filter changes.
C16_FiltersFrame ==
  [][/\ (filterType' # filterType \/ filterSource' # filterSource) =>
          UNCHANGED <<capturedEvents, eventIdRef, isPaused, isPausedRef,
                      hostHandlers, cleanup, nextHid, unsubCalls>>
     /\ UNCHANGED <<capturedEvents, filterType, filterSource>> =>
          filteredEvents' = filteredEvents]_vars

\* The filters of a paused panel holding rows were cleared.
C16_Witness ==
  /\ lastOp = "clearFilters"
  /\ isPaused
  /\ capturedEvents # <<>>
  /\ eventIdRef >= 2

\* C17: the k-th event captured since mount has id k: the ids assigned are
\* 1, 2, 3, ... with no id spent on an event that was not captured, through
\* pauses and clears.
C17_KthCapturedHasIdK ==
  /\ \A k \in 1..Len(issued) : issued[k] = k
  /\ eventIdRef = Len(issued)
  /\ Len(issued) <= nDispatched
  /\ RowIds(capturedEvents) \subseteq 1..Len(issued)

\* Of three dispatched events the second was dropped by a pause, the list
\* was cleared, and the third was captured with id 2.
C17_Witness ==
  /\ pausedStamps = {2}
  /\ maxEvents = 2
  /\ Len(capturedEvents) = 1
  /\ capturedEvents[1].id = 2
  /\ capturedEvents[1].event.timestamp = 3

\* C18: no event dispatched during a pause (the pause state and the flag
\* the handler reads both set) is in the buffer, in any later state.
C18_PausedEventsNeverAppear ==
  \A i \in 1..Len(capturedEvents) :
    capturedEvents[i].event.timestamp \notin pausedStamps

\* The resumed panel captured an event after dropping two during the pause.
C18_Witness ==
  /\ ~isPaused /\ ~isPausedRef
  /\ Cardinality(pausedStamps) = 2
  /\ capturedEvents # <<>>
  /\ Last(capturedEvents).event.timestamp = nDispatched

\* C19: with a maxEvents of zero or less the buffer never holds more than
\* max(maxEvents, 0) = 0 entries.
C19_NonPositiveBound ==
  maxEvents <= 0 => Len(capturedEvents) <= Max(maxEvents, 0)

\* C20: the buffer is never longer than the current maxEvents, also in the
\* states that follow a render with a lower maxEvents and precede the next
\* captured event.
C20_BoundAfterPropChange ==
  phase = "mounted" => Len(capturedEvents) <= maxEvents

\* The ids and event records of a list, in order, without the expanded flags.
RecordsOf(rows) ==
  [i \in 1..Len(rows) |-> [id |-> rows[i].id, event |-> rows[i].event]]

\* C21: the sequence of captured records (ids and events, in order) changes
\* only by an accepted append, which takes the next id and may drop rows
\* from the front, or by clear; any other change of the buffer flips the
\* expanded flag of the one entry with the toggled id and leaves every
\* record, the order, the length and the id counter as they were.
C21_RecordsFrame ==
  [][/\ RecordsOf(capturedEvents') # RecordsOf(capturedEvents) =>
          \/ /\ DispatchStep
             /\ eventIdRef' = eventIdRef + 1
             /\ capturedEvents' # <<>>
             /\ Last(capturedEvents').id = eventIdRef'
             /\ Last(capturedEvents').event.timestamp = nDispatched'
             /\ LET kept == Len(capturedEvents') - 1
                    old  == RecordsOf(capturedEvents)
                IN  /\ kept <= Len(old)
                    /\ SubSeq(RecordsOf(capturedEvents'), 1, kept)
                         = SubSeq(old, Len(old) - kept + 1, Len(old))
          \/ /\ lastOp' = "clearEvents"
             /\ capturedEvents' = <<>>
     /\ (/\ RecordsOf(capturedEvents') = RecordsOf(capturedEvents)
         /\ capturedEvents' # capturedEvents) =>
          /\ eventIdRef' = eventIdRef
          /\ \E id \in RowIds(capturedEvents) :
               \A i \in 1..Len(capturedEvents) :
                 capturedEvents'[i].expanded =
                   IF capturedEvents[i].id = id
                     THEN ~capturedEvents[i].expanded
                     ELSE capturedEvents[i].expanded]_vars

\* Of the two rows captured the first is expanded and the second is not.
C21_Witness ==
  /\ Len(capturedEvents) = 2
  /\ capturedEvents[1].expanded
  /\ ~capturedEvents[2].expanded
  /\ capturedEvents[1].id = 1
  /\ eventIdRef = 2

\* The step is the first run of the subscription effect.
MountStep == phase = "rendered" /\ phase' = "mounted"

\* The step is a re-run of the subscription effect after a change of props.
ResubscribeStep ==
  /\ phase = "mounted" /\ phase' = "mounted"
  /\ subDeps # <<events, maxEvents>>
  /\ subDeps' = <<events', maxEvents'>>

\* C22 as stated: a registration is made only by the mount step, an
\* unsubscribe function is called only by teardown, and after teardown
\* there is no registration any more.
C22_SubscribedOnce ==
  [][/\ nextHid' # nextHid => MountStep
     /\ unsubCalls' # unsubCalls => phase' = "unmounted"
     /\ phase = "unmounted" =>
          (hostHandlers' = <<>> /\ nextHid' = nextHid)]_vars

\* C22 amended: a registration is made only by the mount step or by a
\* re-run of the subscription effect after a change of props, an unsubscribe
\* function is called only by such a re-run or by teardown, nothing is
\* registered before mount, and a torn down panel stays torn down with
\* nothing registered.
C22_SubscriptionLifecycle ==
  [][/\ nextHid' # nextHid => (MountStep \/ ResubscribeStep)
     /\ unsubCalls' # unsubCalls => (phase' = "unmounted" \/ ResubscribeStep)
     /\ phase = "rendered" => hostHandlers = <<>>
     /\ phase = "unmounted" =>
          /\ phase' = "unmounted"
          /\ hostHandlers = <<>> /\ hostHandlers' = <<>>
          /\ nextHid' = nextHid
          /\ unsubCalls' = unsubCalls]_vars

\* A panel that subscribed twice, the second time after a change of props,
\* was torn down after the host had dispatched an event.
C22_Witness ==
  /\ phase = "unmounted"
  /\ nextHid = 2
  /\ unsubCalls = 2
  /\ hostHandlers = <<>>
  /\ nDispatched >= 1

\* The types and the sources of the rows, in buffer order.
TypeValues == [i \in 1..Len(capturedEvents) |-> capturedEvents[i].event.type]
SourceValues == [i \in 1..Len(capturedEvents) |-> capturedEvents[i].event.source]

\* The index of the first occurrence of v in vals.
FirstIndex(vals, v) ==
  CHOOSE i \in DOMAIN vals :
    vals[i] = v /\ \A j \in 1..(i - 1) : vals[j] # v

\* u lists each value of vals exactly once, ordered by first occurrence in
\* vals, and nothing else.
DistinctInFirstSeenOrder(u, vals) ==
  /\ \A i, j \in DOMAIN u : i # j => u[i] # u[j]
  /\ {u[i] : i \in DOMAIN u} = {vals[i] : i \in DOMAIN vals}
  /\ \A i, j \in DOMAIN u :
       i < j => FirstIndex(vals, u[i]) < FirstIndex(vals, u[j])

\* C23: uniqueTypes and uniqueSources hold each distinct type / source of
\* the current buffer exactly once, in the order of first occurrence in the
\* buffer, and no value that is not in the buffer.
C23_UniqueFirstSeen ==
  /\ DistinctInFirstSeenOrder(uniqueTypes, TypeValues)
  /\ DistinctInFirstSeenOrder(uniqueSources, SourceValues)

\* Three rows of three types, the first and the third from the same source.
C23_Witness ==
  /\ Len(capturedEvents) = 3
  /\ Len(uniqueTypes) = 3
  /\ SourceValues = <<SourceUserAction, SourceFileTree, SourceUserAction>>
  /\ uniqueSources = <<SourceUserAction, SourceFileTree>>

\* C24: the Event List shows "Waiting for events..." exactly when the
\* buffer is empty, "No events match your filter" exactly when the buffer
\* is not empty and no entry passes the filters, and rows, those of the
\* entries that pass, exactly when some entry passes; it never shows a
\* placeholder together with rows.
C24_Placeholders ==
  \A passing \in {SelectSeq(capturedEvents, MatchesFilters)} :
  \A placeholder \in {EventListPlaceholder} :
  \A rows \in {EventListRows} :
    /\ placeholder = <<"Waiting for events...">>
         <=> capturedEvents = <<>>
    /\ placeholder = <<"No events match your filter">>
         <=> (capturedEvents # <<>> /\ passing = <<>>)
    /\ rows # <<>> <=> passing # <<>>
    /\ rows = [i \in 1..Len(passing) |-> passing[i].id]
    /\ placeholder = <<>> <=> rows # <<>>

\* Two rows are in the buffer and the filters hide both.
C24_Witness ==
  /\ Len(capturedEvents) = 2
  /\ hasActiveFilters
  /\ EventListPlaceholder = <<"No events match your filter">>
  /\ EventListRows = <<>>

\* The ids of the expanded rows.
ExpandedIds(rows) == { rows[i].id : i \in {k \in DOMAIN rows : rows[k].expanded} }

\* C25: the panel is passive: it exposes no tool, a step that puts an event
\* on the host bus is a dispatch of the host and not an operation of the
\* panel (no pause, clear, filter edit or expansion comes with it), and an
\* id is assigned only in such a step, one at most, so that a capture never
\* leads to a further capture.
C25_Passive ==
  [][/\ Len(agentDrivenUIPanelTools) = 0
     /\ nDispatched' # nDispatched =>
          /\ nDispatched' = nDispatched + 1
          /\ lastOp' = "other"
          /\ UNCHANGED <<phase, isPaused, isPausedRef, filterType,
                         filterSource, hostHandlers, nextHid>>
          /\ ExpandedIds(capturedEvents') \subseteq ExpandedIds(capturedEvents)
     /\ Len(issued') <= Len(issued) + 1
     /\ Len(issued') > Len(issued) => DispatchStep]_vars

\* After a capture, a clear, a second capture, an expansion, a pause and a
\* filter edit undone by clear-filters, the host has dispatched two events.
C25_Witness ==
  /\ lastOp = "clearFilters"
  /\ isPaused
  /\ maxEvents = 2
  /\ nDispatched = 2
  /\ Len(issued) = 2
  /\ Len(capturedEvents) = 1
  /\ capturedEvents[1].expanded

\* C26: with maxEvents >= 1 the ids of a non-empty buffer are consecutive
\* integers, and the last entry's id is the current value of the id counter.
C26_ConsecutiveIdsUpToCounter ==
  (maxEvents >= 1 /\ capturedEvents # <<>>) =>
    /\ \A i \in 1..(Len(capturedEvents) - 1) :
         capturedEvents[i + 1].id = capturedEvents[i].id + 1
    /\ Last(capturedEvents).id = eventIdRef

\* Two rows with ids 1 and 2 were captured around an event dropped by a
\* pause.
C26_Witness ==
  /\ Len(capturedEvents) = 2
  /\ capturedEvents[1].id = 1
  /\ eventIdRef = 2
  /\ StampsOf(capturedEvents) = <<1, 3>>
  /\ pausedStamps = {2}

\* C27: an event dispatched to the subscribed panel is dropped if isPaused
\* is true and captured if isPaused is false, whatever isPausedRef holds at
\* that moment.
C27_PauseStateGoverns ==
  [][(DispatchStep /\ Subscribed) =>
       IF isPaused
         THEN capturedEvents' = capturedEvents /\ eventIdRef' = eventIdRef
         ELSE /\ eventIdRef' = eventIdRef + 1
              /\ capturedEvents' # <<>>
              /\ Last(capturedEvents').event.timestamp = nDispatched']_vars

\* C29: the clear button empties the buffer and leaves the pause state, the
\* flag the handler reads, both filter strings, the subscription and the id
\* counter as they were.
C29_ClearFrame ==
  [][lastOp' = "clearEvents" =>
       /\ capturedEvents' = <<>>
       /\ UNCHANGED <<phase, isPaused, isPausedRef, filterType, filterSource,
                      hostHandlers, cleanup, nextHid, unsubCalls, eventIdRef,
                      issued>>]_vars

\* A paused panel with both filters set, which had captured two events, was
\* cleared.
C29_Witness ==
  /\ lastOp = "clearEvents"
  /\ isPaused /\ isPausedRef
  /\ Truthy(filterType) /\ Truthy(filterSource)
  /\ eventIdRef = 2
  /\ Len(hostHandlers) = 1

\* C28: at most one handler of the panel is registered at any time; a
\* re-run of the subscription effect calls the previous run's unsubscribe
\* function and leaves registered, at most, the handler it has just made;
\* neither the change of a prop nor the re-run touches the buffer or the id
\* counter; no dispatched event is in the buffer twice and the counter
\* never decreases.
C28_ResubscribeKeepsOneHandler ==
  [][/\ Len(hostHandlers') <= 1
     /\ ResubscribeStep =>
          /\ UNCHANGED <<capturedEvents, eventIdRef, issued>>
          /\ cleanup # 0 => unsubCalls' = unsubCalls + 1
          /\ \A i \in DOMAIN hostHandlers' :
               /\ hostHandlers'[i].hid = cleanup'
               /\ hostHandlers'[i].hid # cleanup
               /\ hostHandlers'[i].maxEvents = maxEvents'
     /\ (events' # events \/ maxEvents' # maxEvents) =>
          UNCHANGED <<capturedEvents, eventIdRef, issued>>
     /\ eventIdRef' >= eventIdRef
     /\ \A i, j \in 1..Len(capturedEvents') :
          i # j => capturedEvents'[i].event.timestamp
                     # capturedEvents'[j].event.timestamp]_vars

\* The panel captured one event through its first registration and one
\* through its second, made after a change of props.
C28_Witness ==
  /\ phase = "mounted"
  /\ nextHid = 2
  /\ unsubCalls = 1
  /\ Len(hostHandlers) = 1
  /\ hostHandlers[1].hid = 2
  /\ RowIds(capturedEvents) = {1, 2}

\* The names of the capability entries of agentConfig whose value is truthy.
TruthyCapabilityNames ==
  { CapabilityKeys[k] :
      k \in { n \in DOMAIN CapabilityKeys :
                agentConfig.capabilities.entries[n] = "true" } }

\* C30: the AgentToolsPanel never throws; without an agentConfig it shows
\* the id 'no-agent' and the name 'No Agent Loaded'; with tools missing or
\* empty the tool count is 0 and the Tools tab shows "No tools defined";
\* with capabilities missing there is no badge, and otherwise there is one
\* badge for each entry with a truthy value and for no other.
C30_AgentToolsFallbacks ==
  /\ ~RenderThrows
  /\ ~agentConfig.present =>
       (RenderedId = "no-agent" /\ RenderedName = "No Agent Loaded")
  /\ (\/ ~agentConfig.present
      \/ ~agentConfig.tools.defined
      \/ agentConfig.tools.items = <<>>) =>
       /\ ToolCount = 0
       /\ activeTab = "tools" =>
            /\ ToolsTabContent.placeholder = <<"No tools defined">>
            /\ ToolsTabContent.items = <<>>
  /\ (agentConfig.present /\ agentConfig.tools.items # <<>>) =>
       /\ ToolCount = Len(agentConfig.tools.items)
       /\ activeTab = "tools" =>
            /\ ToolsTabContent.placeholder = <<>>
            /\ ToolsTabContent.items = agentConfig.tools.items
  /\ (~agentConfig.present \/ ~agentConfig.capabilities.defined) =>
       CapabilityBadges = <<>>
  /\ { CapabilityBadges[i] : i \in DOMAIN CapabilityBadges }
       = TruthyCapabilityNames
  /\ Len(CapabilityBadges) = Cardinality(TruthyCapabilityNames)

\* The Tools tab of a config without tools whose capabilities hold a true,
\* a false and an undefined entry.
C30_Witness ==
  /\ agentConfig.present
  /\ ~agentConfig.tools.defined
  /\ activeTab = "tools"
  /\ agentConfig.capabilities.entries =
       <<"true", "false", "undefined">>
  /\ CapabilityBadges = <<"streaming">>
====
